---- MODULE Spec2Model ----
(***************************************************************************)
(* Model of dial: the gap buffer of editor.rs and the interaction loop of  *)
(* app.rs / view.rs.                                                       *)
(*                                                                         *)
(* Indices are 0-based as in the source; TLA+ sequences are 1-based, so    *)
(* slot i of a Vec v is v[i + 1].  A panic (index out of bounds, slice out *)
(* of range, expect/unwrap on None, failed assert!) is recorded in a       *)
(* `panic` flag; nothing runs after it.                                    *)
(***************************************************************************)
EXTENDS Integers, Sequences, FiniteSets, TLC

\* ------------------------------------------------------------------------
\* Bounds of the model
\* ------------------------------------------------------------------------
\* longest initial text given to from_str in the buffer specification
MaxInitLen == 1
\* largest spare capacity given to from_str in the buffer specification
MaxSpare == 3
\* most live characters the buffer specification lets a buffer hold
MaxContent == 5
\* longest backing store the buffer specification lets insert_char work on
MaxBuffer == 6

\* key events of one run that insert characters into the buffers
MaxTyped == 1
\* most records the store holds (the popup adds none beyond it)
MaxSnippets == 2
\* spare capacity of the editor buffer (1024 in the source, scaled down)
EDITOR_BUFFER_SIZE == 3
\* spare capacity of the search and popup buffers (256 in the source, scaled down)
SEARCH_BUFFER_SIZE == 3
TAB_SIZE == 4
PADDING_SIZE == 1

\* filler character '\0'
NUL == "NUL"
\* characters typed into the buffer in the buffer specification
BufChars == {"a", "b"}

\* ------------------------------------------------------------------------
\* Sequence helpers
\* ------------------------------------------------------------------------
\* all sequences over S of length at most n
SeqsUpTo(S, n) == UNION {[1..k -> S] : k \in 0..n}

\* n filler characters
Fill(n) == [i \in 1..n |-> NUL]

\* v[i] = c for a 0-based index i < v.len()
SetAt(v, i, c) == [v EXCEPT ![i + 1] = c]

\* ------------------------------------------------------------------------
\* GapBuffer (editor.rs)
\* ------------------------------------------------------------------------
\* the thread panicked inside a GapBuffer method
Panic(g) == [g EXCEPT !.panic = TRUE]

\* from_str with gap_end one past the last slot of the store
from_str_gap_past_store(text, capacity) ==
    [buffer    |-> text \o Fill(capacity),
     capacity  |-> capacity,
     gap_start |-> Len(text),
     gap_end   |-> Len(text) + capacity,
     panic     |-> FALSE]

from_str(text, capacity) ==
    [buffer    |-> text \o Fill(capacity),
     capacity  |-> capacity,
     gap_start |-> Len(text),
     gap_end   |-> Len(text) + capacity - 1,
     panic     |-> FALSE]

RECURSIVE move_gap_left(_, _)
move_gap_left(g, index) ==
    IF g.panic \/ ~(g.gap_start > index) THEN g
    ELSE IF g.gap_end = 0 THEN Panic(g)                \* usize underflow
    ELSE LET gs == g.gap_start - 1
             ge == g.gap_end - 1
         IN  IF gs >= Len(g.buffer) \/ ge + 1 >= Len(g.buffer) THEN Panic(g)
             ELSE move_gap_left(
                    [g EXCEPT !.gap_start = gs,
                              !.gap_end   = ge,
                              !.buffer    = SetAt(SetAt(g.buffer, ge + 1, g.buffer[gs + 1]),
                                                  gs, NUL)],
                    index)

RECURSIVE move_gap_right(_, _)
move_gap_right(g, index) ==
    IF g.panic \/ ~(g.gap_start < index) THEN g
    ELSE LET gs == g.gap_start + 1
             ge == g.gap_end + 1
         IN  IF ge >= Len(g.buffer) \/ gs - 1 >= Len(g.buffer) THEN Panic(g)
             ELSE move_gap_right(
                    [g EXCEPT !.gap_start = gs,
                              !.gap_end   = ge,
                              !.buffer    = SetAt(SetAt(g.buffer, gs - 1, g.buffer[ge + 1]),
                                                  ge, NUL)],
                    index)

grow(g) ==
    LET new_capacity == g.capacity * 2
        len          == Len(g.buffer)
    IN  IF g.panic THEN g
        ELSE IF g.gap_start > len \/ g.gap_end + 1 > len THEN Panic(g)  \* slice out of range
        ELSE [g EXCEPT !.buffer  = SubSeq(g.buffer, 1, g.gap_start)
                                     \o Fill(new_capacity)
                                     \o SubSeq(g.buffer, g.gap_end + 2, len),
                       !.gap_end = g.gap_start + new_capacity]

\* the write at gap_start that ends insert_char
write_at_gap(g, c) ==
    IF g.panic THEN g
    ELSE IF g.gap_start >= Len(g.buffer) THEN Panic(g)
    ELSE [g EXCEPT !.buffer    = SetAt(g.buffer, g.gap_start, c),
                   !.gap_start = g.gap_start + 1]

insert_char(g, c) ==
    IF g.panic THEN g
    ELSE IF g.gap_end < g.gap_start THEN Panic(g)      \* usize underflow
    ELSE write_at_gap(IF g.gap_end - g.gap_start = 1 THEN grow(g) ELSE g, c)

\* delete_char that moves gap_start back and leaves the character in the slot
delete_char_keeps_slot(g) ==
    IF g.panic \/ g.gap_start = 0 THEN g
    ELSE IF g.gap_start - 1 >= Len(g.buffer) THEN Panic(g)
    ELSE [g EXCEPT !.gap_start = g.gap_start - 1]

delete_char(g) ==
    IF g.panic \/ g.gap_start = 0 THEN g
    ELSE IF g.gap_start - 1 >= Len(g.buffer) THEN Panic(g)
    ELSE [g EXCEPT !.gap_start = g.gap_start - 1,
                   !.buffer    = SetAt(g.buffer, g.gap_start - 1, NUL)]

\* move_gap_right is entered only if index > gap_start, which is its loop test
move_gap(g, index) ==
    IF g.panic THEN g
    ELSE IF g.gap_end < g.gap_start THEN Panic(g)      \* usize underflow
    ELSE IF index + (g.gap_end - g.gap_start) > Len(g.buffer) THEN g
    ELSE IF index = g.gap_start THEN g
    ELSE move_gap_right(IF index < g.gap_start THEN move_gap_left(g, index) ELSE g, index)

\* Materialize: the live characters in document order, the slots of
\* [gap_start, gap_end] left out
to_string(g) ==
    SubSeq(g.buffer, 1, g.gap_start) \o SubSeq(g.buffer, g.gap_end + 2, Len(g.buffer))

\* ------------------------------------------------------------------------
\* Events (crossterm) and screen regions (ratatui layout)
\* ------------------------------------------------------------------------
\* Option<T>: None is the empty sequence, Some(x) the one-element sequence
None == <<>>
Some(x) == <<x>>
\* Option::unwrap on a value known to be Some
Unwrap(o) == o[1]

\* KeyCode::Char(c) for the characters the key bindings name
KeyChars == {"q", "e", "s", "/", "j", "k", "a", "A"}
\* the other key codes; "F1" stands for any key no handler names
SpecialKeys == {"Enter", "Backspace", "Left", "Right", "Tab", "F1"}
KeyKinds == {"Press", "Release"}
\* the keys the model lets insert characters into the buffers
TypedKeys == {"q"}
\* key events other than Escape
OtherKeys == [code : KeyChars \cup SpecialKeys, kind : KeyKinds]
EscKeys == [code : {"Esc"}, kind : KeyKinds]

\* Rect::default()
RectDefault == [x |-> 0, y |-> 0]
\* the regions the layout yields for an 80 x 24 terminal
HorizontalChunk0 == [x |-> 1, y |-> 1]
HorizontalChunk1 == [x |-> 24, y |-> 1]
VerticalChunk0 == [x |-> 1, y |-> 1]
PopupLayout0 == [x |-> 27, y |-> 8]
PopupLayout1 == [x |-> 27, y |-> 11]

\* ------------------------------------------------------------------------
\* AppState (app.rs)
\* ------------------------------------------------------------------------
LowerChar(c) == IF c = "A" THEN "a" ELSE IF c = "Q" THEN "q" ELSE c

to_lowercase(str) == [k \in DOMAIN str |-> LowerChar(str[k])]

\* str::starts_with
starts_with(haystack, needle) ==
    Len(needle) <= Len(haystack) /\ SubSeq(haystack, 1, Len(needle)) = needle
\* str::contains
contains(haystack, needle) ==
    \E k \in 0..(Len(haystack) - Len(needle)) :
        SubSeq(haystack, k + 1, k + Len(needle)) = needle

\* the (index, snippet) pairs whose title matches the query
filtered_snippets(st) ==
    LET enumerated == [k \in 1..Len(st.snippet_list) |->
                          [index |-> k - 1, snippet |-> st.snippet_list[k]]]
        keep(pair) == contains(to_lowercase(pair.snippet.title),
                               to_lowercase(st.search_query))
    IN  SelectSeq(enumerated, keep)

\* filtered.get(selected_index).map(|(original_index, _)| *original_index)
original_index(filtered, selected_index) ==
    IF selected_index < Len(filtered) THEN Some(filtered[selected_index + 1].index) ELSE None

get_selected_snippet_index(st) == original_index(filtered_snippets(st), st.selected_index)

\* snippet_list.get(actual_index) for an Option<usize>
snippet_at(snippet_list, actual_index) ==
    IF actual_index # None /\ Unwrap(actual_index) < Len(snippet_list)
    THEN Some(snippet_list[Unwrap(actual_index) + 1])
    ELSE None

\* Option::map(|snippet| snippet.code.clone())
code_of(snippet) == IF snippet = None THEN None ELSE Some(Unwrap(snippet).code)

get_content(st) == code_of(snippet_at(st.snippet_list, get_selected_snippet_index(st)))

get_current_snippet(st) == snippet_at(st.snippet_list, get_selected_snippet_index(st))

focus_editor(st) == [st EXCEPT !.focused_editor = TRUE]
focus_search(st) == [st EXCEPT !.focused_search = TRUE]
blur_search(st) == [st EXCEPT !.focused_search = FALSE]
\* a blur_editor that clears nothing
blur_editor_kept(st) == st
blur_editor(st) == [st EXCEPT !.focused_editor = FALSE]
\* a blur that leaves the editor focused
blur_search_only(st) == blur_search(st)
blur(st) == blur_editor(blur_search(st))

\* ------------------------------------------------------------------------
\* The world a handler works on: the AppState, the ViewManager, and what the
\* handling of the current event has done so far
\*   panic     a panic unwound the thread
\*   delivered the handlers the event was delivered to, in order
\*   synced    sync_buffer_to_state calls
\*   saves     the record sequences passed to save_snippets, in order
\* ------------------------------------------------------------------------
World(st, vm) ==
    [st |-> st, vm |-> vm, panic |-> FALSE, delivered |-> <<>>, synced |-> 0, saves |-> <<>>]

WPanic(w) == [w EXCEPT !.panic = TRUE]

Deliver(w, handler) == [w EXCEPT !.delivered = Append(w.delivered, handler)]

\* ------------------------------------------------------------------------
\* App::switch_mode (app.rs)
\* ------------------------------------------------------------------------
\* a switch_mode that does not look at the kind of the key event
switch_mode_any_kind(w, event) ==
    LET w1 == Deliver(w, "switch_mode")
    IN  IF event.code = "q" THEN [w1 EXCEPT !.st.should_exit = TRUE]
        ELSE IF event.code = "e" THEN [w1 EXCEPT !.st.mode = "Edit"]
        ELSE IF event.code = "s" THEN [w1 EXCEPT !.st.mode = "Select"]
        ELSE IF event.code = "/" THEN [w1 EXCEPT !.st.mode = "Search"]
        ELSE w1
\* a switch_mode with a binding of its own for the popup
switch_mode_with_popup(w, event) ==
    LET w1 == Deliver(w, "switch_mode")
    IN  IF event.kind # "Press" THEN w1
        ELSE IF event.code = "q" THEN [w1 EXCEPT !.st.should_exit = TRUE]
        ELSE IF event.code = "e" THEN [w1 EXCEPT !.st.mode = "Edit"]
        ELSE IF event.code = "s" THEN [w1 EXCEPT !.st.mode = "Select"]
        ELSE IF event.code = "/" THEN [w1 EXCEPT !.st.mode = "Search"]
        ELSE IF event.code = "a" THEN [w1 EXCEPT !.st.mode = "Popup"]
        ELSE w1
switch_mode(w, event) ==
    LET w1 == Deliver(w, "switch_mode")
    IN  IF event.kind # "Press" THEN w1
        ELSE IF event.code = "q" THEN [w1 EXCEPT !.st.should_exit = TRUE]
        ELSE IF event.code = "e" THEN [w1 EXCEPT !.st.mode = "Edit"]
        ELSE IF event.code = "s" THEN [w1 EXCEPT !.st.mode = "Select"]
        ELSE IF event.code = "/" THEN [w1 EXCEPT !.st.mode = "Search"]
        ELSE w1

\* ------------------------------------------------------------------------
\* SnippetListComponent (view.rs)
\* ------------------------------------------------------------------------
\* a step forward that stops at the last entry
next_of_no_wrap(st, length) ==
    IF length = 0 \/ st.selected_index + 1 >= length THEN st
    ELSE [st EXCEPT !.selected_index = st.selected_index + 1]
\* the selection steps, given filtered_snippets().len()
next_of(st, length) ==
    IF length = 0 THEN st
    ELSE [st EXCEPT !.selected_index = (st.selected_index + 1) % length]

previous_of(st, length) ==
    IF length = 0 THEN st
    ELSE IF st.selected_index = 0 THEN [st EXCEPT !.selected_index = length - 1]
    ELSE [st EXCEPT !.selected_index = st.selected_index - 1]

\* a select_next that wraps at the length of the whole store
select_next_whole_store(st) == next_of(st, Len(st.snippet_list))
select_next(st) == next_of(st, Len(filtered_snippets(st)))

select_previous(st) == previous_of(st, Len(filtered_snippets(st)))

snippet_list_handle_event(w, event) ==
    LET w1 == Deliver(w, "snippet_list")
    IN  IF event.kind # "Press" THEN w1
        ELSE IF event.code = "j" THEN [w1 EXCEPT !.st = select_next(w1.st)]
        ELSE IF event.code = "k" THEN [w1 EXCEPT !.st = select_previous(w1.st)]
        ELSE IF event.code = "a" THEN [w1 EXCEPT !.st.mode = "Popup"]
        ELSE w1

\* ------------------------------------------------------------------------
\* EditorComponent (view.rs)
\* ------------------------------------------------------------------------
\* number of c in the sequence
RECURSIVE Count(_, _)
Count(str, c) ==
    IF str = <<>> THEN 0
    ELSE (IF Head(str) = c THEN 1 ELSE 0) + Count(Tail(str), c)

\* the index just after the last c of the sequence, 0 if there is none
LastAfter(str, c) ==
    LET hits == {k \in 1..Len(str) : str[k] = c}
    IN  IF hits = {} THEN 0 ELSE CHOOSE k \in hits : \A j \in hits : j <= k

\* the cursor projection at the end of EditorComponent::handle_event
editor_cursor(buffer, area) ==
    LET text_before_cursor == SubSeq(buffer.buffer, 1, buffer.gap_start)
        line_count   == Count(text_before_cursor, "\n") + 1
        last_newline == LastAfter(text_before_cursor, "\n")
        column       == buffer.gap_start - last_newline
    IN  <<area.x + PADDING_SIZE + column + 1, area.y + PADDING_SIZE + line_count>>

RECURSIVE insert_times(_, _, _)
insert_times(g, c, n) == IF n = 0 THEN g ELSE insert_times(insert_char(g, c), c, n - 1)

\* a reload that only ever builds the first buffer
editor_reload_first_only(ed, selected, content) ==
    IF ed.selected_index # selected /\ ed.gap_buffer = None
    THEN [ed EXCEPT !.gap_buffer = Some(from_str(Unwrap(content), EDITOR_BUFFER_SIZE)),
                    !.selected_index = selected]
    ELSE ed
\* the reload of the buffer when the selection has changed
editor_reload(ed, selected, content) ==
    IF ed.selected_index # selected
    THEN [ed EXCEPT !.gap_buffer = Some(from_str(Unwrap(content), EDITOR_BUFFER_SIZE)),
                    !.selected_index = selected]
    ELSE ed

\* the rest of render: the buffer and the current snippet must be there
editor_show(w, ed) ==
    IF ed.gap_buffer = None THEN WPanic(w)
    ELSE IF get_current_snippet(w.st) = None THEN WPanic(w)
    ELSE [w EXCEPT !.vm.editor_component = ed]

editor_render_selected(w, selected, content) ==
    IF w.vm.editor_component.selected_index # selected /\ content = None THEN WPanic(w)
    ELSE editor_show(w, editor_reload(w.vm.editor_component, selected, content))

editor_render(w) ==
    editor_render_selected(w, get_selected_snippet_index(w.st), get_content(w.st))

\* the buffer call each key makes
editor_key(b, code) ==
    IF code \in KeyChars THEN insert_char(b, code)
    ELSE IF code = "Enter" THEN insert_char(b, "\n")
    ELSE IF code = "Backspace" THEN delete_char(b)
    ELSE IF code = "Left" THEN move_gap(b, IF b.gap_start = 0 THEN 0 ELSE b.gap_start - 1)
    ELSE IF code = "Right" THEN move_gap(b, b.gap_start + 1)
    ELSE IF code = "Tab" THEN insert_times(b, " ", TAB_SIZE)
    ELSE b

\* after the buffer call: the cursor projection and focus_editor
editor_edited(w, b) ==
    IF b.panic \/ b.gap_start > Len(b.buffer) THEN WPanic(w)
    ELSE [w EXCEPT !.vm.editor_component.gap_buffer = Some(b),
                   !.vm.editor_component.cursor_coordinates =
                       editor_cursor(b, w.st.current_area),
                   !.st = focus_editor(w.st)]

editor_handle_delivered(w, event) ==
    IF w.vm.editor_component.gap_buffer = None THEN WPanic(w)
    ELSE IF event.kind # "Press" THEN w
    ELSE editor_edited(w, editor_key(Unwrap(w.vm.editor_component.gap_buffer), event.code))

editor_handle_event(w, event) == editor_handle_delivered(Deliver(w, "editor"), event)

\* a sync that writes new_code into every record
sync_code_everywhere(w, new_code, actual_index) ==
    IF actual_index # None /\ Unwrap(actual_index) < Len(w.st.snippet_list)
    THEN [w EXCEPT !.st.snippet_list =
                       [k \in DOMAIN w.st.snippet_list |->
                           [w.st.snippet_list[k] EXCEPT !.code = new_code]]]
    ELSE w
\* snippet.code = new_code for the selected snippet, if there is one
sync_code(w, new_code, actual_index) ==
    IF actual_index # None /\ Unwrap(actual_index) < Len(w.st.snippet_list)
    THEN [w EXCEPT !.st.snippet_list[Unwrap(actual_index) + 1].code = new_code]
    ELSE w

sync_called(w) ==
    IF w.vm.editor_component.gap_buffer = None THEN WPanic(w)
    ELSE sync_code(w, to_string(Unwrap(w.vm.editor_component.gap_buffer)),
                   get_selected_snippet_index(w.st))

sync_buffer_to_state(w) == sync_called([w EXCEPT !.synced = w.synced + 1])

\* ------------------------------------------------------------------------
\* SearchComponent (view.rs)
\* ------------------------------------------------------------------------
\* the buffer call each key makes
search_key(b, code) ==
    IF code \in KeyChars THEN insert_char(b, code)
    ELSE IF code = "Backspace" THEN delete_char(b)
    ELSE b

\* a commit on every key: the view follows the text as it is typed
search_commit_on_every_key(st, b, code) ==
    [st EXCEPT !.search_query = to_string(b), !.selected_index = 0]
\* a commit that leaves selected_index where it was
search_commit_keeps_index(st, b, code) ==
    IF code = "Enter" THEN [st EXCEPT !.search_query = to_string(b)] ELSE st
\* Enter commits the query, as the buffer was before this event
search_commit(st, b, code) ==
    IF code = "Enter"
    THEN [st EXCEPT !.search_query = to_string(b), !.selected_index = 0]
    ELSE st

\* after the match: the cursor projection and focus_search
search_edited(w, b, st) ==
    IF b.panic THEN WPanic(w)
    ELSE [w EXCEPT !.vm.search_component.gap_buffer = b,
                   !.vm.search_component.coordinates =
                       <<st.current_area.x + b.gap_start + 1, st.current_area.y + 1>>,
                   !.st = focus_search(st)]

search_handle_delivered(w, event) ==
    IF event.kind # "Press" THEN w
    ELSE search_edited(w,
                       search_key(w.vm.search_component.gap_buffer, event.code),
                       search_commit(w.st, w.vm.search_component.gap_buffer, event.code))

search_handle_event(w, event) == search_handle_delivered(Deliver(w, "search"), event)

\* ------------------------------------------------------------------------
\* AddSnippetPopupComponent (view.rs)
\* ------------------------------------------------------------------------
update_cursor_position(pop, gap_start) ==
    [pop EXCEPT !.cursor_position = <<pop.current_area.x + gap_start + 1,
                                      pop.current_area.y + 1>>]

toggle_focused_input(pop) ==
    IF pop.focused_input = "Title"
    THEN update_cursor_position([pop EXCEPT !.focused_input = "Language",
                                            !.current_area = pop.language_area],
                                pop.language_input.gap_start)
    ELSE update_cursor_position([pop EXCEPT !.focused_input = "Title",
                                            !.current_area = pop.title_area],
                                pop.title_input.gap_start)

\* the buffer of the focused input
active_buffer(pop) ==
    IF pop.focused_input = "Title" THEN pop.title_input ELSE pop.language_input

\* the popup once the buffer active_buffer() refers to has become g
with_active_buffer(pop, g) ==
    IF pop.focused_input = "Title"
    THEN [pop EXCEPT !.title_input = g]
    ELSE [pop EXCEPT !.language_input = g]

\* a buffer change that leaves the cursor where it was
popup_buffer_changed_cursor_kept(pop, g) == with_active_buffer(pop, g)
\* the popup once the active buffer has become g and the cursor follows it
popup_buffer_changed(pop, g) ==
    update_cursor_position(with_active_buffer(pop, g), g.gap_start)

popup_insert_char(pop, c) == popup_buffer_changed(pop, insert_char(active_buffer(pop), c))

popup_delete_char(pop) == popup_buffer_changed(pop, delete_char(active_buffer(pop)))

popup_render(w) ==
    LET pop  == w.vm.add_snippet_popup_component
        pop1 == [pop EXCEPT !.title_area = PopupLayout1,
                            !.language_area = PopupLayout0,
                            !.current_area = IF pop.focused_input = "Title"
                                             THEN PopupLayout1 ELSE PopupLayout0]
    IN  IF pop1.should_show_cursor /\ pop1.cursor_position = <<0, 0>> THEN WPanic(w)
        ELSE [w EXCEPT !.vm.add_snippet_popup_component = pop1]

\* after insert_char or delete_char: should_show_cursor = true
popup_edited(w, pop) ==
    IF pop.title_input.panic \/ pop.language_input.panic THEN WPanic(w)
    ELSE [w EXCEPT !.vm.add_snippet_popup_component =
                       [pop EXCEPT !.should_show_cursor = TRUE]]

\* a popup handler whose 'A' also selects the record it has added
popup_handle_selecting_new(w, event) ==
    IF event.kind # "Press" THEN w
    ELSE IF event.code = "A"
    THEN [w EXCEPT !.st.snippet_list =
                       Append(w.st.snippet_list,
                              [title    |-> to_string(w.vm.add_snippet_popup_component.title_input),
                               language |-> to_string(w.vm.add_snippet_popup_component.language_input),
                               code     |-> <<>>]),
                   !.st.selected_index = Len(w.st.snippet_list),
                   !.st.mode = "Command"]
    ELSE IF event.code \in KeyChars
    THEN popup_edited(w, popup_insert_char(w.vm.add_snippet_popup_component, event.code))
    ELSE IF event.code = "Backspace"
    THEN popup_edited(w, popup_delete_char(w.vm.add_snippet_popup_component))
    ELSE IF event.code = "Enter"
    THEN [w EXCEPT !.vm.add_snippet_popup_component =
                       toggle_focused_input(w.vm.add_snippet_popup_component)]
    ELSE w
\* a popup handler whose 'A' puts the new record in front of the others
popup_handle_prepending(w, event) ==
    IF event.kind # "Press" THEN w
    ELSE IF event.code = "A"
    THEN [w EXCEPT !.st.snippet_list =
                       <<[title    |-> to_string(w.vm.add_snippet_popup_component.title_input),
                          language |-> to_string(w.vm.add_snippet_popup_component.language_input),
                          code     |-> <<>>]>> \o w.st.snippet_list,
                   !.st.mode = "Command"]
    ELSE IF event.code \in KeyChars
    THEN popup_edited(w, popup_insert_char(w.vm.add_snippet_popup_component, event.code))
    ELSE IF event.code = "Backspace"
    THEN popup_edited(w, popup_delete_char(w.vm.add_snippet_popup_component))
    ELSE IF event.code = "Enter"
    THEN [w EXCEPT !.vm.add_snippet_popup_component =
                       toggle_focused_input(w.vm.add_snippet_popup_component)]
    ELSE w
popup_handle_delivered(w, event) ==
    IF event.kind # "Press" THEN w
    ELSE IF event.code = "A"
    THEN [w EXCEPT !.st.snippet_list =
                       Append(w.st.snippet_list,
                              [title    |-> to_string(w.vm.add_snippet_popup_component.title_input),
                               language |-> to_string(w.vm.add_snippet_popup_component.language_input),
                               code     |-> <<>>]),
                   !.st.mode = "Command"]
    ELSE IF event.code \in KeyChars
    THEN popup_edited(w, popup_insert_char(w.vm.add_snippet_popup_component, event.code))
    ELSE IF event.code = "Backspace"
    THEN popup_edited(w, popup_delete_char(w.vm.add_snippet_popup_component))
    ELSE IF event.code = "Enter"
    THEN [w EXCEPT !.vm.add_snippet_popup_component =
                       toggle_focused_input(w.vm.add_snippet_popup_component)]
    ELSE w

popup_handle_event(w, event) == popup_handle_delivered(Deliver(w, "popup"), event)

\* ------------------------------------------------------------------------
\* App::run (app.rs): one frame, one event
\* ------------------------------------------------------------------------
\* the popup is rendered in Popup mode only
render_popup(w) ==
    IF ~w.panic /\ w.st.mode = "Popup" THEN popup_render(w) ELSE w

\* "update current area" at the end of the closure
update_current_area(w) ==
    IF w.panic THEN w
    ELSE IF w.st.mode = "Select" THEN [w EXCEPT !.st.current_area = HorizontalChunk0]
    ELSE IF w.st.mode = "Edit"   THEN [w EXCEPT !.st.current_area = HorizontalChunk1]
    ELSE IF w.st.mode = "Search" THEN [w EXCEPT !.st.current_area = VerticalChunk0]
    ELSE w

\* the closure given to terminal.draw
draw_frame(w) == update_current_area(render_popup(editor_render(w)))

\* self.app_state.blur()
blur_world(w) == [w EXCEPT !.st = blur(w.st)]

\* the call of save_snippets(&snippet_list[..]) once the sync has returned
save_called(w) ==
    IF w.panic THEN w ELSE [w EXCEPT !.saves = Append(w.saves, w.st.snippet_list)]

\* an Esc branch that calls save_snippets before the sync
handle_esc_save_first(w) ==
    sync_buffer_to_state(save_called(blur_world([w EXCEPT !.st.mode = "Command"])))
\* the KeyCode::Esc branch, up to the call of save_snippets
handle_esc(w) ==
    save_called(sync_buffer_to_state(blur_world([w EXCEPT !.st.mode = "Command"])))

\* the `else if` chain from Select on
dispatch_rest(w, event) ==
    IF w.st.mode = "Select" THEN snippet_list_handle_event(w, event)
    ELSE IF w.st.mode = "Edit" THEN editor_handle_event(w, event)
    ELSE IF w.st.mode = "Search" THEN search_handle_event(w, event)
    ELSE IF w.st.mode = "Popup" THEN popup_handle_event(w, event)
    ELSE w

\* a dispatch whose Command test is an `if` of its own: the chain that
\* follows tests the mode switch_mode has left
dispatch_fall_through(w, event) ==
    dispatch_rest(IF w.st.mode = "Command" THEN switch_mode(w, event) ELSE w, event)
\* the dispatch of every other key to the handler of the mode
dispatch(w, event) ==
    IF w.st.mode = "Command" THEN switch_mode(w, event) ELSE dispatch_rest(w, event)

\* characters the handling of the event asks the buffers to insert
Inserted(mode, event) ==
    IF event.kind # "Press" \/ mode \notin {"Edit", "Search", "Popup"} THEN 0
    ELSE IF event.code \in KeyChars
         THEN (IF mode = "Popup" /\ event.code = "A" THEN 0 ELSE 1)
    ELSE IF mode = "Edit" /\ event.code = "Enter" THEN 1
    ELSE IF mode = "Edit" /\ event.code = "Tab" THEN TAB_SIZE
    ELSE 0

\* ------------------------------------------------------------------------
\* Reference: a plain character sequence with a cursor
\* ------------------------------------------------------------------------
RefNew(text) == [text |-> text, cursor |-> Len(text)]

RefInsert(r, c) ==
    [text   |-> SubSeq(r.text, 1, r.cursor) \o <<c>> \o SubSeq(r.text, r.cursor + 1, Len(r.text)),
     cursor |-> r.cursor + 1]

RefDelete(r) ==
    IF r.cursor = 0 THEN r
    ELSE [text   |-> SubSeq(r.text, 1, r.cursor - 1) \o SubSeq(r.text, r.cursor + 1, Len(r.text)),
          cursor |-> r.cursor - 1]

RefMove(r, index) ==
    IF index <= Len(r.text) THEN [r EXCEPT !.cursor = index] ELSE r

\* ------------------------------------------------------------------------
\* persistence.rs
\* ------------------------------------------------------------------------
SaveOutcomes == {"ok", "create_failed", "write_failed"}

\* the file after save_snippets(snippets): File::create truncates it before
\* the write
save_snippets(file, snippets, outcome) ==
    IF outcome = "ok" THEN [valid |-> TRUE, snippets |-> snippets]
    ELSE IF outcome = "write_failed" THEN [valid |-> FALSE, snippets |-> <<>>]
    ELSE file

\* ------------------------------------------------------------------------
\* State
\* ------------------------------------------------------------------------
VARIABLES
    app_state,     \* App::app_state
    view_manager,  \* App::view_manager
    pc,            \* App::run: "loop" (at the loop test), "exited" (returned Ok),
                   \* "failed" (returned Err), "panicked"
    disk,          \* the content of snippets.json
    typed,         \* key events that have inserted characters so far
    gb,            \* the GapBuffer under test
    ref,           \* the reference sequence and cursor driven by the same calls
    op,            \* the last call on gb: [name, arg]
    moved,         \* move_gap has been called on gb at least once
    grown          \* filler slots the latest grow of gb has added, 0 before the first

appvars == <<app_state, view_manager, pc, disk, typed>>
bufvars == <<gb, ref, op, moved, grown>>
vars == <<app_state, view_manager, pc, disk, typed, gb, ref, op, moved, grown>>

\* ------------------------------------------------------------------------
\* Construction: App::new, ViewManager::new
\* ------------------------------------------------------------------------
Snippet(title, language, code) == [title |-> title, language |-> language, code |-> code]

\* record sequences load_snippets returns in the model
InitialStores ==
    { <<Snippet(<<"s">>, <<"s">>, <<>>)>>,
      <<Snippet(<<"Q", "e">>, <<"e">>, <<"a">>), Snippet(<<"s">>, <<"s">>, <<>>)>> }

AppStateNew(snippet_list) ==
    [snippet_list   |-> snippet_list,
     search_query   |-> <<>>,
     selected_index |-> 0,
     mode           |-> "Command",
     should_exit    |-> FALSE,
     current_area   |-> RectDefault,
     focused_editor |-> FALSE,
     focused_search |-> FALSE]

EditorComponentNew ==
    [gap_buffer |-> None, selected_index |-> None, cursor_coordinates |-> <<0, 0>>]

SearchComponentNew ==
    [gap_buffer |-> from_str(<<>>, SEARCH_BUFFER_SIZE), coordinates |-> <<0, 0>>]

AddSnippetPopupComponentNew ==
    [title_input        |-> from_str(<<>>, SEARCH_BUFFER_SIZE),
     language_input     |-> from_str(<<>>, SEARCH_BUFFER_SIZE),
     cursor_position    |-> <<0, 0>>,
     focused_input      |-> "Language",
     current_area       |-> RectDefault,
     should_show_cursor |-> FALSE,
     title_area         |-> RectDefault,
     language_area      |-> RectDefault]

ViewManagerNew ==
    [editor_component            |-> EditorComponentNew,
     search_component            |-> SearchComponentNew,
     add_snippet_popup_component |-> AddSnippetPopupComponentNew]

AppNew(snippet_list) ==
    /\ app_state = AppStateNew(snippet_list)
    /\ view_manager = ViewManagerNew
    /\ pc = "loop"
    /\ disk = [valid |-> TRUE, snippets |-> snippet_list]
    /\ typed = 0

BufIdle ==
    /\ gb = from_str(<<>>, 2)
    /\ ref = RefNew(<<>>)
    /\ op = [name |-> "from_str", arg |-> 2]
    /\ moved = FALSE
    /\ grown = 0

Init ==
    /\ \E snippet_list \in InitialStores : AppNew(snippet_list)
    /\ BufIdle

\* ------------------------------------------------------------------------
\* The run loop: one action is one iteration of `while !should_exit`, which
\* draws the frame, reads one event and handles it.  terminal.draw itself is
\* taken to succeed; the closure it runs may panic.
\* ------------------------------------------------------------------------
\* the world once this iteration's frame has been drawn
Frame == draw_frame(World(app_state, view_manager))

\* the loop condition is false: run returns Ok
Exit ==
    /\ pc = "loop"
    /\ app_state.should_exit
    /\ pc' = "exited"
    /\ UNCHANGED <<app_state, view_manager, disk, typed, bufvars>>

\* a render panics while the frame is drawn
DrawPanic ==
    /\ pc = "loop"
    /\ ~app_state.should_exit
    /\ Frame.panic
    /\ pc' = "panicked"
    /\ UNCHANGED <<app_state, view_manager, disk, typed, bufvars>>

\* the loop is entered once more
Loops ==
    /\ pc = "loop"
    /\ ~app_state.should_exit

\* the frame is drawn and an event is read
Reads == Loops /\ ~Frame.panic

\* what handling an event leaves behind: a panic unwinds out of run with the
\* fields as they were, otherwise the handler's effects stay
Handled(w, next_pc) ==
    IF w.panic
       THEN pc' = "panicked" /\ UNCHANGED <<app_state, view_manager>>
       ELSE pc' = next_pc /\ app_state' = w.st /\ view_manager' = w.vm

\* nothing is handled: the frame's effects stay
Skipped(frame) == ~frame.panic /\ Handled(frame, "loop")

\* event::read() returns Err: logged, next iteration
ReadError ==
    /\ Loops
    /\ Skipped(Frame)
    /\ UNCHANGED <<disk, typed, bufvars>>

\* an event that is no key event (resize, mouse, focus, paste)
OtherEvent ==
    /\ Loops
    /\ Skipped(Frame)
    /\ UNCHANGED <<disk, typed, bufvars>>

\* the Esc branch has run to w; save_snippets then ends with outcome, and `?`
\* returns its error from run
EscHandled(w, outcome) ==
    IF w.panic
    THEN Handled(w, "panicked") /\ UNCHANGED disk
    ELSE /\ Handled(w, IF outcome = "ok" THEN "loop" ELSE "failed")
         /\ disk' = save_snippets(disk, w.st.snippet_list, outcome)

\* KeyCode::Esc on the drawn frame, whatever the mode and the kind of the key event
EscOn(frame, event, outcome) ==
    /\ ~frame.panic
    /\ EscHandled(handle_esc(frame), outcome)
    /\ UNCHANGED <<typed, bufvars>>

EscKey ==
    /\ Loops
    /\ \E event \in EscKeys, outcome \in SaveOutcomes : EscOn(Frame, event, outcome)

\* a key other than Escape on the drawn frame
KeyOn(frame, event) ==
    /\ ~frame.panic
    /\ Inserted(frame.st.mode, event) > 0 => (typed < MaxTyped /\ event.code \in TypedKeys)
    /\ (frame.st.mode = "Popup" /\ event.code = "A" /\ event.kind = "Press")
          => Len(frame.st.snippet_list) < MaxSnippets
    /\ typed' = typed + (IF Inserted(frame.st.mode, event) > 0 THEN 1 ELSE 0)
    /\ Handled(dispatch(frame, event), "loop")
    /\ UNCHANGED <<disk, bufvars>>

\* a key other than Escape, read in each of the modes
CommandKey ==
    /\ Loops
    /\ app_state.mode = "Command"
    /\ \E event \in OtherKeys : KeyOn(Frame, event)

SelectKey ==
    /\ Loops
    /\ app_state.mode = "Select"
    /\ \E event \in OtherKeys : KeyOn(Frame, event)

EditKey ==
    /\ Loops
    /\ app_state.mode = "Edit"
    /\ \E event \in OtherKeys : KeyOn(Frame, event)

SearchKey ==
    /\ Loops
    /\ app_state.mode = "Search"
    /\ \E event \in OtherKeys : KeyOn(Frame, event)

PopupKey ==
    /\ Loops
    /\ app_state.mode = "Popup"
    /\ \E event \in OtherKeys : KeyOn(Frame, event)

Next ==
    \/ Exit
    \/ DrawPanic
    \/ ReadError
    \/ OtherEvent
    \/ EscKey
    \/ CommandKey
    \/ SelectKey
    \/ EditKey
    \/ SearchKey
    \/ PopupKey

Spec == Init /\ [][Next]_vars

\* ------------------------------------------------------------------------
\* Buffer specification: from_str, then any calls of the public methods
\* ------------------------------------------------------------------------
InitBuf ==
    /\ \E text \in SeqsUpTo(BufChars, MaxInitLen), spare \in 2..MaxSpare :
        /\ gb = from_str(text, spare)
        /\ ref = RefNew(text)
        /\ op = [name |-> "from_str", arg |-> spare]
        /\ moved = FALSE
        /\ grown = 0
    /\ AppNew(<<Snippet(<<"A", "a">>, <<"e">>, <<"a">>)>>)

\* filler slots grow() puts between gap_start and the text it keeps after
\* the gap
FillerAdded(g) == Len(grow(g).buffer) - Len(g.buffer) + (g.gap_end - g.gap_start + 1)

\* the test of insert_char that sends it into grow
calls_grow(g) == g.gap_end - g.gap_start = 1

\* insert_char on g calls grow, and grow returns
Grows(g) == ~g.panic /\ calls_grow(g) /\ ~grow(g).panic

InsertChar ==
    /\ ~gb.panic
    /\ Len(ref.text) < MaxContent
    /\ Len(gb.buffer) <= MaxBuffer
    /\ \E c \in BufChars :
        /\ gb' = insert_char(gb, c)
        /\ ref' = RefInsert(ref, c)
        /\ op' = [name |-> "insert_char", arg |-> c]
    /\ grown' = IF Grows(gb) THEN FillerAdded(gb) ELSE grown
    /\ UNCHANGED <<moved, appvars>>

DeleteChar ==
    /\ ~gb.panic
    /\ gb' = delete_char(gb)
    /\ ref' = RefDelete(ref)
    /\ op' = [name |-> "delete_char", arg |-> 0]
    /\ UNCHANGED <<moved, grown, appvars>>

MoveGap ==
    /\ ~gb.panic
    /\ \E index \in 0..(Len(gb.buffer) + 1) :
        /\ gb' = move_gap(gb, index)
        /\ ref' = RefMove(ref, index)
        /\ op' = [name |-> "move_gap", arg |-> index]
    /\ moved' = TRUE
    /\ UNCHANGED <<grown, appvars>>

NextBuf == InsertChar \/ DeleteChar \/ MoveGap

SpecBuf == InitBuf /\ [][NextBuf]_vars

\* ------------------------------------------------------------------------
\* Claims about the gap buffer (checked under SpecBuf)
\* ------------------------------------------------------------------------
\* free slots the gap is meant to have: gap_end is the last empty slot
GapWidth(g) == g.gap_end - g.gap_start + 1

\* C1: over any sequence of insert_char / delete_char calls on a buffer
\* built with spare >= 2, no call faults and the materialized content
\* equals the reference sequence driven by the same calls.
C1_MatchesReference ==
    ~moved => (~gb.panic /\ to_string(gb) = ref.text)

\* C2: in every reachable buffer state and for every index i, move_gap(i)
\* completes and leaves the materialized content unchanged.
C2_MoveGapKeepsContent ==
    [][op'.name = "move_gap" => (~gb'.panic /\ to_string(gb') = to_string(gb))]_vars

\* C3: grow(), applied to a reachable buffer state in which insert_char
\* calls it, completes without fault, leaves the materialized content equal
\* to the content before the call and makes the backing store strictly
\* longer.
C3_GrowPreservesContent ==
    (~gb.panic /\ gb.gap_end - gb.gap_start = 1) =>
        LET g2 == grow(gb)
        IN  /\ ~g2.panic
            /\ to_string(g2) = to_string(gb)
            /\ Len(g2.buffer) > Len(gb.buffer)

\* C4: move_gap(target) never faults; a target that would place the gap
\* outside the backing store leaves the buffer unchanged; every call either
\* leaves the state unchanged or ends with gap_start = target.
C4_MoveGapSilentNoOp ==
    [][op'.name = "move_gap" =>
        /\ ~gb'.panic
        /\ (op'.arg + GapWidth(gb) > Len(gb.buffer)) => gb' = gb
        /\ (gb' = gb \/ gb'.gap_start = op'.arg)]_vars

\* C5: in every state reachable from from_str(initial, spare >= 2) by
\* insert_char, delete_char and move_gap, gap_start <= gap_end and gap_end
\* is a valid index of the backing store.
C5_GapWithinStore ==
    /\ gb.gap_start <= gb.gap_end
    /\ gb.gap_end < Len(gb.buffer)

\* C6: the number of live characters equals buffer length minus
\* (gap_end - gap_start + 1); every slot of [gap_start, gap_end] is filler
\* and every slot outside it holds a live character.
C6_GapIsExactlyTheFiller ==
    ~gb.panic =>
        /\ Len(ref.text) = Len(gb.buffer) - GapWidth(gb)
        /\ \A i \in 0..(Len(gb.buffer) - 1) :
              (gb.buffer[i + 1] = NUL) <=> (gb.gap_start <= i /\ i <= gb.gap_end)
        /\ gb.gap_end < Len(gb.buffer)

\* ------------------------------------------------------------------------
\* Claims about the mode machine (checked under Spec)
\* ------------------------------------------------------------------------
\* the text an Option<GapBuffer> holds, empty if there is none
TextOf(gap_buffer) == IF gap_buffer = None THEN <<>> ELSE to_string(Unwrap(gap_buffer))

\* the handler of each mode, as dispatch logs it
HandlerOf(mode) ==
    IF mode = "Command" THEN "switch_mode"
    ELSE IF mode = "Select" THEN "snippet_list"
    ELSE IF mode = "Edit" THEN "editor"
    ELSE IF mode = "Search" THEN "search"
    ELSE "popup"

CommandBindings == {"q", "e", "s", "/"}

\* what the Esc branch has done when it ends in w
EscapeEffect(w) ==
    /\ ~w.panic
    /\ w.st.mode = "Command"
    /\ ~w.st.focused_editor
    /\ ~w.st.focused_search

\* C7: the Escape key, read in any mode and with any focus flags, is handled
\* to the end and leaves the mode Command and both focus flags false.
C7_EscapeReturnsToCommand ==
    Reads => EscapeEffect(handle_esc(Frame))

\* Escape has been handled after a character was typed into the editor, which
\* had set focused_editor: the edit is synced and the flags are cleared
C7_Witness ==
    /\ app_state.mode = "Command"
    /\ typed = 1
    /\ TextOf(view_manager.editor_component.gap_buffer) = <<"a", "q">>
    /\ app_state.snippet_list[1].code = <<"a", "q">>
    /\ ~app_state.focused_editor
    /\ ~app_state.focused_search

\* what a key event other than Escape has done once switch_mode returns st
CommandKeyEffect(event, st) ==
    IF event.kind = "Press" /\ event.code = "q"
    THEN st.should_exit /\ st.mode = "Command"
    ELSE IF event.kind = "Press" /\ event.code = "e" THEN st.mode = "Edit"
    ELSE IF event.kind = "Press" /\ event.code = "s" THEN st.mode = "Select"
    ELSE IF event.kind = "Press" /\ event.code = "/" THEN st.mode = "Search"
    ELSE /\ st.mode = app_state.mode
         /\ st.should_exit = app_state.should_exit
         /\ st.selected_index = app_state.selected_index
         /\ st.search_query = app_state.search_query
         /\ st.snippet_list = app_state.snippet_list

CommandKeyHandled(event, w) == ~w.panic /\ CommandKeyEffect(event, w.st)

\* C8: the mode is Command initially; in Command mode a press of 'q' sets
\* should_exit and leaves the mode, 'e' moves to Edit, 's' to Select, '/' to
\* Search, every other key other than Escape leaves mode, should_exit,
\* selection, query and records unchanged; should_exit is set and the modes
\* Edit, Select and Search are entered only from Command.
C8_CommandBindings ==
    /\ app_state.mode = "Command"
    /\ []((Reads /\ app_state.mode = "Command") =>
            \A event \in OtherKeys : CommandKeyHandled(event, dispatch(Frame, event)))
    /\ [][/\ (app_state'.should_exit /\ ~app_state.should_exit)
                => app_state.mode = "Command"
          /\ (app_state'.mode \in {"Edit", "Select", "Search"}
                /\ app_state'.mode # app_state.mode)
                => app_state.mode = "Command"]_vars

\* the program went to Search with '/', typed there, came back and was asked
\* to exit with 'q'
C8_Witness ==
    /\ app_state.should_exit
    /\ app_state.mode = "Command"
    /\ to_string(view_manager.search_component.gap_buffer) = <<"q">>

\* the event, read in the current mode, has been handled to w
OneHandler(event, w) ==
    /\ w.delivered = <<HandlerOf(app_state.mode)>>
    /\ app_state.mode # "Command" =>
          /\ ~w.st.should_exit
          /\ event.code \in CommandBindings => w.st.mode = app_state.mode

\* C9: every key event other than Escape is delivered to exactly one
\* handler, the one of the mode it was read in; outside Command mode no key
\* sets should_exit and the keys 'q', 'e', 's', '/' leave the mode as it is;
\* should_exit becomes true only while the mode is Command.
C9_OneHandlerPerEvent ==
    /\ [](Reads =>
            \A event \in OtherKeys : OneHandler(event, dispatch(Frame, event)))
    /\ [][(app_state'.should_exit /\ ~app_state.should_exit) => CommandKey]_vars

\* 'q' was read in Edit mode: it went into the buffer, the mode and
\* should_exit are as before
C9_Witness ==
    /\ app_state.mode = "Edit"
    /\ ~app_state.should_exit
    /\ typed = 1
    /\ TextOf(view_manager.editor_component.gap_buffer) = <<"a", "q">>

\* the worlds the handling of one event read on this frame can end in
Handlings ==
    {handle_esc(Frame)} \cup {dispatch(Frame, event) : event \in OtherKeys}

\* C10: every event whose handling changes the mode from Select, Search,
\* Edit or Popup to Command calls save_snippets with the whole snippet_list
\* while it is handled.
C10_SaveOnEveryReturnToCommand ==
    [][(app_state.mode # "Command" /\ app_state'.mode = "Command")
        => \E w \in Handlings :
              /\ w.st = app_state'
              /\ w.vm = view_manager'
              /\ w.saves = <<app_state'.snippet_list>>]_vars

\* ------------------------------------------------------------------------
\* Claims about the sync-back and the save (checked under Spec)
\* ------------------------------------------------------------------------
\* the sync has taken the world before to the world after, actual_index
\* being get_selected_snippet_index() before
SyncedAt(before, after, actual_index) ==
    /\ ~after.panic
    /\ Len(after.st.snippet_list) = Len(before.st.snippet_list)
    /\ \A k \in 1..Len(before.st.snippet_list) :
          IF actual_index # None /\ k = Unwrap(actual_index) + 1
          THEN /\ after.st.snippet_list[k].code =
                      TextOf(before.vm.editor_component.gap_buffer)
               /\ after.st.snippet_list[k].title = before.st.snippet_list[k].title
               /\ after.st.snippet_list[k].language = before.st.snippet_list[k].language
          ELSE after.st.snippet_list[k] = before.st.snippet_list[k]

\* the fields as they are between two iterations
Fields == World(app_state, view_manager)

\* C11: when Escape is handled on a frame, and whenever sync_buffer_to_state
\* runs on the fields with an editor buffer present, the record at
\* get_selected_snippet_index() gets the buffer's content as its code, its
\* title and language and every other record stay; with no selected index
\* no record changes; the sync does not fail.
C11_SyncWritesSelectedRecord ==
    /\ Reads => SyncedAt(Frame, handle_esc(Frame), get_selected_snippet_index(Frame.st))
    /\ view_manager.editor_component.gap_buffer # None
          => SyncedAt(Fields, sync_buffer_to_state(Fields),
                      get_selected_snippet_index(app_state))

\* Escape has synced "aq" into the first of two records; the second one and
\* the first one's title and language are as loaded
C11_Witness ==
    /\ Len(app_state.snippet_list) = 2
    /\ app_state.snippet_list[1] = Snippet(<<"Q", "e">>, <<"e">>, <<"a", "q">>)
    /\ app_state.snippet_list[2] = Snippet(<<"s">>, <<"s">>, <<>>)
    /\ app_state.mode = "Command"

\* the Esc branch has taken the frame to w: one sync, then one save of the
\* synced records
SyncThenSave(frame, w, actual_index) ==
    /\ w.synced = 1
    /\ w.saves = <<w.st.snippet_list>>
    /\ actual_index # None =>
          w.saves[1][Unwrap(actual_index) + 1].code =
              TextOf(frame.vm.editor_component.gap_buffer)

\* the handling of another key has neither synced nor saved
NoSyncNoSave(w) == w.synced = 0 /\ w.saves = <<>>

\* C12: every Escape key event triggers exactly one sync-back and then
\* exactly one Save, whose argument already holds the editor's content; no
\* other event triggers a sync or a Save, and the file changes only when
\* Escape is handled.
C12_OneSyncThenOneSave ==
    /\ [](Reads =>
            /\ SyncThenSave(Frame, handle_esc(Frame), get_selected_snippet_index(Frame.st))
            /\ \A event \in OtherKeys : NoSyncNoSave(dispatch(Frame, event)))
    /\ [][disk' # disk => EscKey]_vars

\* the file holds what was typed in Edit mode: Escape synced before it saved
C12_Witness ==
    /\ typed = 1
    /\ disk.valid
    /\ Len(disk.snippets) = 2
    /\ disk.snippets[1].code = <<"a", "q">>
    /\ disk.snippets = app_state.snippet_list

\* C13: from a non-empty store and an empty query no sequence of key events
\* makes a frame fatal: whenever the loop draws, the editor render finds a
\* selected record and a buffer, so the closure given to terminal.draw does
\* not panic.
C13_NoFatalFrame ==
    Loops => ~Frame.panic

\* C14: when run has returned through should_exit, every save having
\* succeeded, the records last given to save_snippets are the records in
\* memory.
C14_ExitAfterFinalSave ==
    pc = "exited" => (disk.valid /\ disk.snippets = app_state.snippet_list)

\* Escape is read and save_snippets returns an error
SaveFails ==
    /\ Loops
    /\ \E event \in EscKeys, outcome \in SaveOutcomes \ {"ok"} : EscOn(Frame, event, outcome)

\* C15: when save_snippets fails while Escape is handled, the loop goes on
\* to the next frame with the mode at Command.
C15_SaveFailureKeepsLooping ==
    [][SaveFails => (pc' = "loop" /\ app_state'.mode = "Command")]_vars

\* ------------------------------------------------------------------------
\* Claims about focus, selection and the filtered view (checked under Spec)
\* ------------------------------------------------------------------------
\* C16: at most one of focused_editor and focused_search is true;
\* focused_editor only in Edit mode, focused_search only in Search mode; in
\* Command mode both are false.
C16_FocusFollowsMode ==
    /\ ~(app_state.focused_editor /\ app_state.focused_search)
    /\ app_state.focused_editor => app_state.mode = "Edit"
    /\ app_state.focused_search => app_state.mode = "Search"
    /\ app_state.mode = "Command" =>
          (~app_state.focused_editor /\ ~app_state.focused_search)

\* a key has been handled by the editor: it has the focus, the search has not
C16_Witness ==
    /\ app_state.mode = "Edit"
    /\ app_state.focused_editor
    /\ ~app_state.focused_search
    /\ typed = 1

\* C17: whenever the filtered view is not empty, selected_index is smaller
\* than its length.
C17_SelectionWithinView ==
    Len(filtered_snippets(app_state)) > 0
        => app_state.selected_index < Len(filtered_snippets(app_state))

\* a query that keeps one of two records has been committed: the index is
\* back at 0, inside the shorter view
C17_Witness ==
    /\ Len(app_state.snippet_list) = 2
    /\ app_state.search_query = <<"q">>
    /\ Len(filtered_snippets(app_state)) = 1
    /\ app_state.selected_index = 0

\* the index after a step forward or backward in a view of n entries
StepForward(i, n) == IF n = 0 THEN i ELSE (i + 1) % n
StepBackward(i, n) == IF n = 0 THEN i ELSE (i + n - 1) % n

\* st is the AppState stepped to index i and nothing else
MovedTo(st, i) == st = [app_state EXCEPT !.selected_index = i]

\* C18: with n the length of the filtered view for the current query,
\* select_next takes index i < n to (i + 1) mod n and select_previous takes
\* it to (i - 1) mod n; with n = 0 both leave the index; nothing else
\* changes.
C18_NextPreviousModuloView ==
    /\ MovedTo(select_next(app_state),
               StepForward(app_state.selected_index, Len(filtered_snippets(app_state))))
    /\ MovedTo(select_previous(app_state),
               StepBackward(app_state.selected_index, Len(filtered_snippets(app_state))))

\* the list is shown in Select mode under a query that keeps one of two
\* records: the view is shorter than the store
C18_Witness ==
    /\ app_state.mode = "Select"
    /\ Len(app_state.snippet_list) = 2
    /\ Len(filtered_snippets(app_state)) = 1

\* select_next applied n times
RECURSIVE SelectNextTimes(_, _)
SelectNextTimes(st, n) == IF n = 0 THEN st ELSE SelectNextTimes(select_next(st), n - 1)

\* the round trip from index i of the current view of n entries
RoundTrip(i, n) ==
    SelectNextTimes([app_state EXCEPT !.selected_index = i], n).selected_index = i

\* C19: in a filtered view of n > 0 entries, select_next applied n times
\* from any index of the view comes back to that index.
C19_NextRoundTrip ==
    \A i \in 0..(Len(filtered_snippets(app_state)) - 1) :
        RoundTrip(i, Len(filtered_snippets(app_state)))

\* 'j' has moved the selection to the second of two entries in Select mode
C19_Witness ==
    /\ app_state.mode = "Select"
    /\ Len(filtered_snippets(app_state)) = 2
    /\ app_state.selected_index = 1

\* queries the filter is tried with
QueryChars == {"q", "Q", "s", "e"}
MaxQuery == 2

\* needle occurs in haystack
Occurs(needle, haystack) ==
    \E a \in 0..Len(haystack), b \in 0..Len(haystack) :
        SubSeq(haystack, a + 1, b) = needle

\* view is the filtered view of the records for the query: the pairs
\* (i, record i) whose title matches, by increasing i
IsFilterOf(view, records, query) ==
    /\ \A j \in 1..Len(view) :
          /\ view[j].index \in 0..(Len(records) - 1)
          /\ view[j].snippet = records[view[j].index + 1]
          /\ Occurs(to_lowercase(query), to_lowercase(records[view[j].index + 1].title))
    /\ \A j \in 1..(Len(view) - 1) : view[j].index < view[j + 1].index
    /\ \A k \in 1..Len(records) :
          Occurs(to_lowercase(query), to_lowercase(records[k].title))
              => \E j \in 1..Len(view) : view[j].index = k - 1

\* C20: for the records of every reachable state and every query,
\* filtered_snippets() is exactly the pairs (i, record i) whose lower-cased
\* title contains the lower-cased query, by increasing i; for the empty
\* query these are all the records.
C20_FilterKeepsMatchingTitles ==
    /\ \A query \in SeqsUpTo(QueryChars, MaxQuery) :
          IsFilterOf(filtered_snippets([app_state EXCEPT !.search_query = query]),
                     app_state.snippet_list, query)
    /\ Len(filtered_snippets([app_state EXCEPT !.search_query = <<>>]))
          = Len(app_state.snippet_list)

\* the committed query "q" keeps the record titled "Qe" and drops "s"
C20_Witness ==
    /\ app_state.search_query = <<"q">>
    /\ Len(app_state.snippet_list) = 2
    /\ filtered_snippets(app_state) =
          <<[index |-> 0, snippet |-> app_state.snippet_list[1]]>>

\* ------------------------------------------------------------------------
\* Claims about the editor cursor, the records and the popup entry
\* (checked under Spec)
\* ------------------------------------------------------------------------
\* positions (1-based) of the newlines before gap_start
NewlinesBefore(b) == {k \in 1..b.gap_start : b.buffer[k] = "\n"}

\* the index just after the last newline before gap_start, 0 if none
LineStart(b) ==
    IF NewlinesBefore(b) = {} THEN 0
    ELSE CHOOSE k \in NewlinesBefore(b) : \A j \in NewlinesBefore(b) : j <= k

\* the screen position of gap_start for a buffer shown in area
Projection(b, area) ==
    <<area.x + PADDING_SIZE + (b.gap_start - LineStart(b)) + 1,
      area.y + PADDING_SIZE + 1 + Cardinality(NewlinesBefore(b))>>

\* the editor of w shows the cursor where its buffer's gap is
CursorProjected(w) ==
    /\ ~w.panic
    /\ w.vm.editor_component.gap_buffer # None
    /\ w.vm.editor_component.cursor_coordinates =
          Projection(Unwrap(w.vm.editor_component.gap_buffer), w.st.current_area)

\* C21: every key press read in Edit mode is handled to the end and leaves
\* cursor_coordinates at the projection of the editor buffer; whenever
\* focused_editor is true the stored cursor is that projection.
C21_CursorIsProjection ==
    /\ (Reads /\ app_state.mode = "Edit") =>
          \A code \in KeyChars \cup SpecialKeys :
              CursorProjected(dispatch(Frame, [code |-> code, kind |-> "Press"]))
    /\ app_state.focused_editor => CursorProjected(Fields)

\* the same for the key presses whose handling returns
CursorIsProjectionOnReturn ==
    /\ (Reads /\ app_state.mode = "Edit") =>
          \A code \in KeyChars \cup SpecialKeys :
              \/ dispatch(Frame, [code |-> code, kind |-> "Press"]).panic
              \/ CursorProjected(dispatch(Frame, [code |-> code, kind |-> "Press"]))
    /\ app_state.focused_editor => CursorProjected(Fields)

\* C22: in every step the records that exist keep their position, title
\* and language; a code changes only in the step that handles Escape; the
\* store never shrinks and grows only by one record, in a popup step.
C22_RecordsAreStable ==
    [][/\ Len(app_state'.snippet_list) >= Len(app_state.snippet_list)
       /\ \A k \in 1..Len(app_state.snippet_list) :
             /\ app_state'.snippet_list[k].title = app_state.snippet_list[k].title
             /\ app_state'.snippet_list[k].language = app_state.snippet_list[k].language
             /\ app_state'.snippet_list[k].code # app_state.snippet_list[k].code => EscKey
       /\ Len(app_state'.snippet_list) # Len(app_state.snippet_list) =>
             /\ Len(app_state'.snippet_list) = Len(app_state.snippet_list) + 1
             /\ app_state.mode = "Popup"
             /\ PopupKey]_vars

\* the loaded record has got the typed code through an Escape and a second
\* record has been added behind it through the popup
C22_Witness ==
    app_state.snippet_list =
        <<Snippet(<<"s">>, <<"s">>, <<"q">>), Snippet(<<>>, <<>>, <<>>)>>

\* the event, read in the current mode, opens the popup exactly if it is a
\* press of 'a' in Select mode
OpensPopupOnlyFromSelect(event, w) ==
    (w.st.mode = "Popup" /\ app_state.mode # "Popup")
        <=> (app_state.mode = "Select" /\ event.code = "a" /\ event.kind = "Press")

\* C23: the mode becomes Popup only by a press of 'a' read in Select mode:
\* a step that ends in Popup starts in Select or Popup, and no key read in
\* Command, Search or Edit leads to Popup.
C23_PopupOnlyFromSelect ==
    /\ [](Reads =>
            /\ \A event \in OtherKeys : OpensPopupOnlyFromSelect(event, dispatch(Frame, event))
            /\ handle_esc(Frame).st.mode # "Popup")
    /\ [][app_state'.mode = "Popup" => app_state.mode \in {"Select", "Popup"}]_vars

\* 'a' has been pressed in Select mode: the popup is open and the frame that
\* shows it has been drawn
C23_Witness ==
    /\ app_state.mode = "Popup"
    /\ view_manager.add_snippet_popup_component.title_area = PopupLayout1

\* Escape, handled on frame w, writes the editor text into the record the
\* editor remembers and into no other
WritesRemembered(w, after) ==
    LET ed == w.vm.editor_component
    IN  /\ ~after.panic
        /\ ed.selected_index # None
        /\ ed.gap_buffer # None
        /\ Unwrap(ed.selected_index) < Len(w.st.snippet_list)
        /\ Len(after.st.snippet_list) = Len(w.st.snippet_list)
        /\ \A k \in 1..Len(w.st.snippet_list) :
              IF k = Unwrap(ed.selected_index) + 1
              THEN after.st.snippet_list[k] =
                       [w.st.snippet_list[k] EXCEPT !.code = TextOf(ed.gap_buffer)]
              ELSE after.st.snippet_list[k] = w.st.snippet_list[k]

\* C27: on every frame on which an event is read, the index the editor
\* has remembered when it built its buffer is get_selected_snippet_index(),
\* and an Escape read on that frame writes the editor text into the record
\* at the remembered index and into no other record.
C27_SyncTargetsLoadedRecord ==
    Reads =>
        /\ Frame.vm.editor_component.selected_index = get_selected_snippet_index(Frame.st)
        /\ WritesRemembered(Frame, handle_esc(Frame))

\* the selection has been moved to the second record and an Escape has
\* written the typed text into it, the first record keeping its code
C27_Witness ==
    /\ Len(app_state.snippet_list) = 2
    /\ view_manager.editor_component.selected_index = Some(1)
    /\ app_state.snippet_list[1].code = <<"a">>
    /\ app_state.snippet_list[2].code = <<"q">>

\* between w and after, nothing but the search box buffer, its coordinates
\* and focused_search differs
OnlySearchBoxChanged(w, after) ==
    /\ ~after.panic
    /\ after.st = [w.st EXCEPT !.focused_search = after.st.focused_search]
    /\ after.vm = [w.vm EXCEPT !.search_component = after.vm.search_component]
    /\ after.vm.search_component =
          [w.vm.search_component EXCEPT
              !.gap_buffer  = after.vm.search_component.gap_buffer,
              !.coordinates = after.vm.search_component.coordinates]
    /\ filtered_snippets(after.st) = filtered_snippets(w.st)

\* the effect of one key event handled in Search mode on frame w
SearchKeyEffect(w, event, after) ==
    IF event.kind = "Press" /\ event.code = "Enter"
    THEN /\ ~after.panic
         /\ after.st = [w.st EXCEPT !.search_query = to_string(w.vm.search_component.gap_buffer),
                                    !.selected_index = 0,
                                    !.focused_search = TRUE]
    ELSE /\ OnlySearchBoxChanged(w, after)
         /\ (event.kind = "Press" /\ event.code \in KeyChars) =>
                to_string(after.vm.search_component.gap_buffer) =
                    Append(to_string(w.vm.search_component.gap_buffer), event.code)
         /\ (event.kind = "Press" /\ event.code \notin KeyChars \cup {"Backspace"}) =>
                after.vm.search_component.gap_buffer = w.vm.search_component.gap_buffer

\* C29: in Search mode a typed character or Backspace changes only the
\* search box buffer, its coordinates and focused_search, leaving
\* search_query, the filtered view and selected_index as they were; Enter
\* sets search_query to the text of the search buffer and selected_index to
\* 0; Escape leaves search_query unchanged.
C29_OnlyEnterCommitsQuery ==
    (Reads /\ app_state.mode = "Search") =>
        /\ \A event \in OtherKeys : SearchKeyEffect(Frame, event, dispatch(Frame, event))
        /\ handle_esc(Frame).st.search_query = app_state.search_query

\* a character has been typed into the search box and the query is still
\* the empty one
C29_Witness ==
    /\ app_state.mode = "Search"
    /\ app_state.focused_search
    /\ to_string(view_manager.search_component.gap_buffer) = <<"q">>
    /\ app_state.search_query = <<>>

\* the record the popup of w is to add
PopupRecord(w) ==
    [title    |-> to_string(w.vm.add_snippet_popup_component.title_input),
     language |-> to_string(w.vm.add_snippet_popup_component.language_input),
     code     |-> <<>>]

\* after differs from w by one record added at the end and by the mode
AddedOneRecord(w, after) ==
    /\ ~after.panic
    /\ Len(after.st.snippet_list) = Len(w.st.snippet_list) + 1
    /\ after.st.snippet_list[Len(after.st.snippet_list)] = PopupRecord(w)
    /\ \A k \in 1..Len(w.st.snippet_list) : after.st.snippet_list[k] = w.st.snippet_list[k]
    /\ after.st.mode = "Command"
    /\ after.st.selected_index = w.st.selected_index
    /\ after.st.search_query = w.st.search_query
    /\ after.st.focused_editor = w.st.focused_editor
    /\ after.st.focused_search = w.st.focused_search

\* C30: a press of 'A' in the popup appends exactly one record at the end
\* of the store, with the title and the language of the two inputs and
\* empty code, sets the mode to Command and leaves every existing record,
\* selected_index, search_query and both focus flags unchanged.
C30_PopupAddAppendsOneRecord ==
    /\ [](( Reads /\ app_state.mode = "Popup") =>
             AddedOneRecord(Frame, dispatch(Frame, [code |-> "A", kind |-> "Press"])))
    /\ [][(app_state.mode = "Popup" /\ app_state'.mode = "Command"
            /\ Len(app_state'.snippet_list) # Len(app_state.snippet_list)) =>
              /\ app_state'.snippet_list =
                    Append(app_state.snippet_list,
                           [title    |-> to_string(view_manager.add_snippet_popup_component.title_input),
                            language |-> to_string(view_manager.add_snippet_popup_component.language_input),
                            code     |-> <<>>])
              /\ app_state'.selected_index = app_state.selected_index
              /\ app_state'.search_query = app_state.search_query]_vars

\* the popup has added, behind the loaded record, a record whose language
\* was typed into the input the popup focuses first
C30_Witness ==
    /\ app_state.mode = "Command"
    /\ Len(app_state.snippet_list) = 2
    /\ app_state.snippet_list[2] = Snippet(<<>>, <<"q">>, <<>>)

\* C31: the assertion of the popup render holds: in every reachable state
\* in which should_show_cursor is true, cursor_position differs from (0, 0),
\* so a render of the popup never panics; and every key press handled in
\* Popup mode leaves the popup in such a state.
C31_PopupCursorAssertion ==
    /\ view_manager.add_snippet_popup_component.should_show_cursor =>
          view_manager.add_snippet_popup_component.cursor_position # <<0, 0>>
    /\ ~popup_render(World(app_state, view_manager)).panic
    /\ (Reads /\ app_state.mode = "Popup") =>
          \A code \in KeyChars \cup SpecialKeys :
              ~popup_render(dispatch(Frame, [code |-> code, kind |-> "Press"])).panic

\* the popup has shown its cursor, has added a record with a typed
\* language, has been left and opened again, and the focus has been toggled
\* to the title input
C31_Witness ==
    /\ app_state.mode = "Popup"
    /\ view_manager.add_snippet_popup_component.should_show_cursor
    /\ view_manager.add_snippet_popup_component.focused_input = "Title"
    /\ view_manager.add_snippet_popup_component.cursor_position = <<PopupLayout1.x + 1, PopupLayout1.y + 1>>
    /\ Len(app_state.snippet_list) = 2
    /\ app_state.snippet_list[2].language = <<"q">>

\* ------------------------------------------------------------------------
\* Further claims about the gap buffer (checked under SpecBuf)
\* ------------------------------------------------------------------------
\* g is what the constructor is to return for text and spare
FromStrContract(text, spare, g) ==
    /\ ~g.panic
    /\ Len(g.buffer) = Len(text) + spare
    /\ \A k \in 1..Len(text) : g.buffer[k] = text[k]
    /\ \A k \in (Len(text) + 1)..(Len(text) + spare) : g.buffer[k] = NUL
    /\ g.gap_start = Len(text)
    /\ g.gap_end = Len(text) + spare - 1
    /\ to_string(g) = text

\* C24: from_str(initial, spare) with spare >= 1 yields a store of the
\* characters of initial followed by spare filler slots, gap_start =
\* len(initial), gap_end = len(initial) + spare - 1, and the materialized
\* content is initial.
C24_FromStrLayout ==
    /\ op.name = "from_str" => FromStrContract(ref.text, op.arg, gb)
    /\ \A text \in SeqsUpTo(BufChars, MaxInitLen + 1), spare \in 1..MaxSpare :
          FromStrContract(text, spare, from_str(text, spare))

\* a buffer just built from a one-character text with the largest spare
C24_Witness ==
    /\ op.name = "from_str"
    /\ Len(ref.text) = MaxInitLen
    /\ op.arg = MaxSpare
    /\ Len(gb.buffer) = MaxInitLen + MaxSpare

\* C25: each grow adds twice the free slots the grow before it has added,
\* and the first grow twice the spare capacity the buffer was built with.
C25_GrowDoubles ==
    Grows(gb) => FillerAdded(gb) = 2 * (IF grown = 0 THEN gb.capacity ELSE grown)

\* the slots of g other than slot i hold in h what they hold in g
SameExceptSlot(g, h, i) ==
    /\ Len(h.buffer) = Len(g.buffer)
    /\ \A k \in 0..(Len(g.buffer) - 1) : k # i => h.buffer[k + 1] = g.buffer[k + 1]

\* C26: delete_char with gap_start = 0 changes nothing and raises no
\* error; with gap_start > 0 it decrements gap_start by one, writes filler
\* into the vacated slot and leaves gap_end and every other slot unchanged.
C26_DeleteCharEffect ==
    [][op'.name = "delete_char" =>
        /\ ~gb'.panic
        /\ gb.gap_start = 0 => gb' = gb
        /\ gb.gap_start > 0 =>
              /\ gb'.gap_start = gb.gap_start - 1
              /\ gb'.buffer[gb'.gap_start + 1] = NUL
              /\ gb'.gap_end = gb.gap_end
              /\ SameExceptSlot(gb, gb', gb'.gap_start)]_vars

\* the second of two characters has been deleted, the first is still there
C26_Witness ==
    /\ op.name = "delete_char"
    /\ ~gb.panic
    /\ gb.gap_start = 1
    /\ gb.buffer[1] # NUL
    /\ gb.buffer[2] = NUL

\* C28: insert_char calls grow exactly if one free slot is left before the
\* write, and after every insert_char the call has returned and the gap
\* still has a free slot.
C28_GrowsAtOneFreeSlot ==
    [][op'.name = "insert_char" =>
        /\ calls_grow(gb) <=> GapWidth(gb) = 1
        /\ ~gb'.panic
        /\ GapWidth(gb') >= 1]_vars

====
